---- MODULE Spec2Model ----
(***************************************************************************)
(* Model of the dataset comparison macros of sas2py                        *)
(* (src/src/sas2py/compare/macros.py): compvars and compare.               *)
(*                                                                         *)
(* A table (pandas DataFrame) is a record                                  *)
(*     [dtype : column name -> dtype kind, rows : sequence of rows]        *)
(* where a row maps every column name to a cell.  The dtype kind of a      *)
(* column is "f" (float64), "i" (int64) or "O" (object).  A cell is a      *)
(* number, a text or the missing marker (NaN / None).  Numbers are whole   *)
(* multiples of one unit; the tolerances are given in the same unit.       *)
(***************************************************************************)
EXTENDS Integers, Sequences, FiniteSets, TLC

\* ---------------------------------------------------------------- bounds
MaxRows == 2      \* most rows of a table
MaxVal  == 2      \* float cells are -MaxVal..MaxVal or missing
MaxTol  == 1      \* numeric_abs_tol and numeric_rel_tol are 0..MaxTol

\* ----------------------------------------------------------------- cells
NaN    == [kind |-> "na",  n |-> 0, s |-> ""]
Num(k) == [kind |-> "num", n |-> k, s |-> ""]
Str(x) == [kind |-> "str", n |-> 0, s |-> x]

isna(v) == v.kind = "na"

abs(k) == IF k < 0 THEN -k ELSE k

max(a, b) == IF a >= b THEN a ELSE b

min(a, b) == IF a <= b THEN a ELSE b

\* ---------------------------------------------------------------- tables
columns(t) == DOMAIN t.dtype

len(t) == Len(t.rows)

\* the empty sequence, and the sequence of the values f(1), ..., f(k)
RECURSIVE Concat(_, _)
Concat(f, k) == IF k = 0 THEN <<>> ELSE Concat(f, k - 1) \o f[k]

\* the members of the sequence `order` that are in the set S, in that order:
\* the order in which Python iterates over the set S
RECURSIVE Iterate(_, _)
Iterate(order, S) ==
    IF order = <<>> THEN <<>>
    ELSE (IF Head(order) \in S THEN <<Head(order)>> ELSE <<>>)
             \o Iterate(Tail(order), S)

\* --------------------------------------------------------------- compvars
\* compvars that returns every column of ds2 as found in ds2 only
compvarsRightAll(ds1, ds2, order) ==
    LET vars1 == columns(ds1)
        vars2 == columns(ds2)
    IN  [vars_left  |-> Iterate(order, vars1 \ vars2),
         vars_right |-> Iterate(order, vars2),
         vars_both  |-> Iterate(order, vars1 \cap vars2)]

\* compvars(ds1, ds2): the lists are made from sets, so their order is the
\* order in which the sets are iterated
compvars(ds1, ds2, order) ==
    LET vars1 == columns(ds1)
        vars2 == columns(ds2)
    IN  [vars_left  |-> Iterate(order, vars1 \ vars2),
         vars_right |-> Iterate(order, vars2 \ vars1),
         vars_both  |-> Iterate(order, vars1 \cap vars2)]

\* ---------------------------------------------------------------- compare
\* isclose with a strict bound: equal numbers are not close at tolerance 0
iscloseStrict(a, b, rtol, atol) == abs(a - b) < atol + rtol * abs(b)

\* numpy.isclose(a, b, rtol, atol) for finite a, b
isclose(a, b, rtol, atol) == abs(a - b) <= atol + rtol * abs(b)

\* both columns are float (or complex) columns
BothFloat(base, comp, col) ==
    base.dtype[col] \in {"f", "c"} /\ comp.dtype[col] \in {"f", "c"}

\* base_val != comp_val of two non-missing cells: a number and a text are
\* never equal
NotEqual(base_val, comp_val) == base_val # comp_val

\* CellRecords without the test for two missing cells
CellRecordsNoBothMissing(head, base_val, comp_val, float, atol, rtol) ==
    IF isna(base_val) \/ isna(comp_val)
    THEN << head @@ [base_value |-> base_val, comp_value |-> comp_val,
                     issue |-> "missing_value_mismatch"] >>
    ELSE IF float
    THEN IF ~ isclose(base_val.n, comp_val.n, rtol, atol)
         THEN << head @@ [base_value |-> base_val, comp_value |-> comp_val,
                          issue |-> "value_mismatch",
                          difference |-> comp_val.n - base_val.n] >>
         ELSE <<>>
    ELSE IF NotEqual(base_val, comp_val)
         THEN << head @@ [base_value |-> base_val, comp_value |-> comp_val,
                          issue |-> "value_mismatch"] >>
         ELSE <<>>

\* CellRecords that gives the delta of every two unequal numbers, whatever
\* the dtype of the columns
CellRecordsDeltaForNumbers(head, base_val, comp_val, float, atol, rtol) ==
    IF isna(base_val) /\ isna(comp_val) THEN <<>>
    ELSE IF isna(base_val) \/ isna(comp_val)
    THEN << head @@ [base_value |-> base_val, comp_value |-> comp_val,
                     issue |-> "missing_value_mismatch"] >>
    ELSE IF float
    THEN IF ~ isclose(base_val.n, comp_val.n, rtol, atol)
         THEN << head @@ [base_value |-> base_val, comp_value |-> comp_val,
                          issue |-> "value_mismatch",
                          difference |-> comp_val.n - base_val.n] >>
         ELSE <<>>
    ELSE IF NotEqual(base_val, comp_val)
         THEN IF base_val.kind = "num" /\ comp_val.kind = "num"
              THEN << head @@ [base_value |-> base_val, comp_value |-> comp_val,
                               issue |-> "value_mismatch",
                               difference |-> comp_val.n - base_val.n] >>
              ELSE << head @@ [base_value |-> base_val, comp_value |-> comp_val,
                               issue |-> "value_mismatch"] >>
         ELSE <<>>

\* the records one pair of cells adds to the list: `head` holds the fields
\* that precede base_value (by_values, variable, row)
CellRecords(head, base_val, comp_val, float, atol, rtol) ==
    IF isna(base_val) /\ isna(comp_val) THEN <<>>
    ELSE IF isna(base_val) \/ isna(comp_val)
    THEN << head @@ [base_value |-> base_val, comp_value |-> comp_val,
                     issue |-> "missing_value_mismatch"] >>
    ELSE IF float
    THEN IF ~ isclose(base_val.n, comp_val.n, rtol, atol)
         THEN << head @@ [base_value |-> base_val, comp_value |-> comp_val,
                          issue |-> "value_mismatch",
                          difference |-> comp_val.n - base_val.n] >>
         ELSE <<>>
    ELSE IF NotEqual(base_val, comp_val)
         THEN << head @@ [base_value |-> base_val, comp_value |-> comp_val,
                          issue |-> "value_mismatch"] >>
         ELSE <<>>

\* the else branch walking every column of base: a column comp lacks is
\* compared with missing cells
PositionalDifferencesBaseColumns(base, comp, atol, rtol, order) ==
    LET base_vars == Iterate(order, columns(base))
        min_rows == min(len(base), len(comp))
        ColRecords(col) ==
            Concat([i \in 1..min_rows |->
                      IF col \in columns(comp)
                      THEN CellRecords([variable |-> col, row |-> i - 1],
                                       base.rows[i][col], comp.rows[i][col],
                                       BothFloat(base, comp, col), atol, rtol)
                      ELSE CellRecords([variable |-> col, row |-> i - 1],
                                       base.rows[i][col], NaN, FALSE, atol, rtol)],
                   min_rows)
    IN  (IF len(base) # len(comp)
         THEN << [issue |-> "row_count_mismatch",
                  base_rows |-> len(base), comp_rows |-> len(comp)] >>
         ELSE <<>>)
        \o Concat([k \in 1..Len(base_vars) |-> ColRecords(base_vars[k])],
                  Len(base_vars))

\* the else branch without the record of the row counts
PositionalDifferencesNoCount(base, comp, atol, rtol, order) ==
    LET common_vars == Iterate(order, columns(base) \cap columns(comp))
        min_rows == min(len(base), len(comp))
        ColRecords(col) ==
            Concat([i \in 1..min_rows |->
                      CellRecords([variable |-> col, row |-> i - 1],
                                  base.rows[i][col], comp.rows[i][col],
                                  BothFloat(base, comp, col), atol, rtol)],
                   min_rows)
    IN  Concat([k \in 1..Len(common_vars) |-> ColRecords(common_vars[k])],
               Len(common_vars))

\* the else branch of compare: comparison by position
PositionalDifferences(base, comp, atol, rtol, order) ==
    LET common_vars == Iterate(order, columns(base) \cap columns(comp))
        min_rows == min(len(base), len(comp))
        ColRecords(col) ==
            Concat([i \in 1..min_rows |->
                      CellRecords([variable |-> col, row |-> i - 1],
                                  base.rows[i][col], comp.rows[i][col],
                                  BothFloat(base, comp, col), atol, rtol)],
                   min_rows)
    IN  (IF len(base) # len(comp)
         THEN << [issue |-> "row_count_mismatch",
                  base_rows |-> len(base), comp_rows |-> len(comp)] >>
         ELSE <<>>)
        \o Concat([k \in 1..Len(common_vars) |-> ColRecords(common_vars[k])],
                  Len(common_vars))

\* ------------------------------------------------------ compare, by keys
\* the condition without the test that `by` is given
KeyedModeAnyBy(base, comp, by) ==
    /\ \A k \in 1..Len(by) : by[k] \in columns(base)
    /\ \A k \in 1..Len(by) : by[k] \in columns(comp)

\* the condition of the if of compare: `by` is given and every column it
\* names is a column of both tables
KeyedMode(base, comp, by) ==
    /\ by # <<>>
    /\ \A k \in 1..Len(by) : by[k] \in columns(base)
    /\ \A k \in 1..Len(by) : by[k] \in columns(comp)

ByColumns(by) == {by[k] : k \in 1..Len(by)}

\* the key tuple of a row
KeyTuple(row, by) == [k \in 1..Len(by) |-> row[by[k]]]

\* the order of sort_values on one key cell: ascending, missing cells last
CellLess(a, b) ==
    IF isna(a) THEN FALSE ELSE IF isna(b) THEN TRUE ELSE a.n < b.n

RECURSIVE KeyLess(_, _)
KeyLess(k1, k2) ==
    IF k1 = <<>> THEN FALSE
    ELSE IF CellLess(Head(k1), Head(k2)) THEN TRUE
    ELSE IF CellLess(Head(k2), Head(k1)) THEN FALSE
    ELSE KeyLess(Tail(k1), Tail(k2))

RECURSIVE Insert(_, _, _)
Insert(row, rows, by) ==
    IF rows = <<>> THEN <<row>>
    ELSE IF KeyLess(KeyTuple(row, by), KeyTuple(Head(rows), by))
    THEN <<row>> \o rows
    ELSE <<Head(rows)>> \o Insert(row, Tail(rows), by)

RECURSIVE SortRows(_, _)
SortRows(rows, by) ==
    IF rows = <<>> THEN <<>>
    ELSE Insert(rows[Len(rows)], SortRows(SubSeq(rows, 1, Len(rows) - 1), by), by)

\* df.sort_values(by).reset_index(drop=True): a new table, rows ascending
\* by the key columns, rows of equal keys in their former order
sort_values(t, by) == [dtype |-> t.dtype, rows |-> SortRows(t.rows, by)]

\* the table the caller holds after a sort in place
ArgumentAfterSortInPlace(t, by) == sort_values(t, by)

\* the table the caller holds after compare has sorted it: sort_values and
\* reset_index return new tables, neither is called with inplace=True
ArgumentAfterSort(t, by) == t

\* set(map(tuple, t[by].values)): the distinct key tuples.  A tuple that
\* holds NaN equals no other tuple, so every such row is a key of its own:
\* `side` and the row number tell these apart.
KeySet(t, by, side) ==
    { [key |-> KeyTuple(t.rows[i], by),
       own |-> IF \E k \in 1..Len(by) : isna(t.rows[i][by[k]])
               THEN side + i ELSE 0] : i \in 1..len(t) }

\* t.loc[(t[by] == key).all(axis=1)]: the rows whose key cells equal the
\* key; NaN equals nothing
Group(t, by, key) ==
    SelectSeq(t.rows,
              LAMBDA row : \A k \in 1..Len(by) :
                  ~ isna(row[by[k]]) /\ ~ isna(key[k]) /\ row[by[k]] = key[k])

\* the sequences that list every member of S once: the orders in which a
\* set can be iterated
Orders(S) ==
    { f \in [1..Cardinality(S) -> S] :
        \A i, j \in 1..Cardinality(S) : i # j => f[i] # f[j] }

\* KeyedDifferences that compares the key columns like the others
KeyedDifferencesAllColumns(base, comp, by, atol, rtol, order, keyorder) ==
    LET base_sorted == sort_values(base, by)
        comp_sorted == sort_values(comp, by)
        cols == Iterate(order, columns(base) \cap columns(comp))
        ColRecords(key, col) ==
            LET base_vals == Group(base_sorted, by, key)
                comp_vals == Group(comp_sorted, by, key)
            IN  IF Len(base_vals) # Len(comp_vals)
                THEN << [by_values |-> key, variable |-> col,
                         issue |-> "row_count_mismatch",
                         base_rows |-> Len(base_vals),
                         comp_rows |-> Len(comp_vals)] >>
                ELSE Concat([i \in 1..Len(base_vals) |->
                        CellRecords([by_values |-> key, variable |-> col,
                                     row |-> i - 1],
                                    base_vals[i][col], comp_vals[i][col],
                                    BothFloat(base, comp, col), atol, rtol)],
                        Len(base_vals))
        KeyRecords(key) ==
            Concat([c \in 1..Len(cols) |-> ColRecords(key, cols[c])], Len(cols))
    IN  Concat([k \in 1..Len(keyorder) |-> KeyRecords(keyorder[k].key)],
               Len(keyorder))

\* the list `differences` the keyed branch builds; keyorder is the order in
\* which common_keys is iterated
KeyedDifferences(base, comp, by, atol, rtol, order, keyorder) ==
    LET base_sorted == sort_values(base, by)
        comp_sorted == sort_values(comp, by)
        cols == Iterate(order, columns(base) \cap columns(comp))
        ColRecords(key, col) ==
            LET base_vals == Group(base_sorted, by, key)
                comp_vals == Group(comp_sorted, by, key)
            IN  IF col \in ByColumns(by) THEN <<>>
                ELSE IF Len(base_vals) # Len(comp_vals)
                THEN << [by_values |-> key, variable |-> col,
                         issue |-> "row_count_mismatch",
                         base_rows |-> Len(base_vals),
                         comp_rows |-> Len(comp_vals)] >>
                ELSE Concat([i \in 1..Len(base_vals) |->
                        CellRecords([by_values |-> key, variable |-> col,
                                     row |-> i - 1],
                                    base_vals[i][col], comp_vals[i][col],
                                    BothFloat(base, comp, col), atol, rtol)],
                        Len(base_vals))
        KeyRecords(key) ==
            Concat([c \in 1..Len(cols) |-> ColRecords(key, cols[c])], Len(cols))
    IN  Concat([k \in 1..Len(keyorder) |-> KeyRecords(keyorder[k].key)],
               Len(keyorder))

\* the keys both tables have
CommonKeys(base, comp, by) == KeySet(base, by, 0) \cap KeySet(comp, by, MaxRows + 1)

\* the fields with the flag telling that the two sets of keys are equal
KeyedFieldsSameKeys(base, comp, by) ==
    LET base_keys == KeySet(base, by, 0)
        comp_keys == KeySet(comp, by, MaxRows + 1)
    IN  [by_group_count_match |-> base_keys = comp_keys,
         base_only_groups |-> Cardinality(base_keys \ comp_keys),
         comp_only_groups |-> Cardinality(comp_keys \ base_keys),
         common_groups    |-> Cardinality(base_keys \cap comp_keys)]

\* the fields with the keys of either table counted as common
KeyedFieldsUnion(base, comp, by) ==
    LET base_keys == KeySet(base, by, 0)
        comp_keys == KeySet(comp, by, MaxRows + 1)
    IN  [by_group_count_match |-> Cardinality(base_keys) = Cardinality(comp_keys),
         base_only_groups |-> Cardinality(base_keys \ comp_keys),
         comp_only_groups |-> Cardinality(comp_keys \ base_keys),
         common_groups    |-> Cardinality(base_keys \cup comp_keys)]

\* the fields the keyed branch adds to the result
KeyedFields(base, comp, by) ==
    LET base_keys == KeySet(base, by, 0)
        comp_keys == KeySet(comp, by, MaxRows + 1)
    IN  [by_group_count_match |-> Cardinality(base_keys) = Cardinality(comp_keys),
         base_only_groups |-> Cardinality(base_keys \ comp_keys),
         comp_only_groups |-> Cardinality(comp_keys \ base_keys),
         common_groups    |-> Cardinality(base_keys \cap comp_keys)]

\* the result as first built
Header(base, comp) ==
    [row_count_match    |-> len(base) = len(comp),
     base_rows          |-> len(base),
     comp_rows          |-> len(comp),
     column_count_match |-> Cardinality(columns(base)) = Cardinality(columns(comp)),
     base_columns       |-> Cardinality(columns(base)),
     comp_columns       |-> Cardinality(columns(comp)),
     column_names_match |-> columns(base) = columns(comp),
     differences        |-> <<>>]

\* Finish with match taken before the differences are known
FinishMatchEarly(result) ==
    result @@ [match |-> TRUE, difference_count |-> Len(result.differences)]

\* the last two assignments of compare
Finish(result) ==
    result @@ [match |-> Len(result.differences) = 0,
               difference_count |-> Len(result.differences)]

\* the branches of compare that run
Branches(base, comp, by) ==
    IF KeyedMode(base, comp, by) THEN {"keyed"} ELSE {"positional"}

\* compare that compares nothing when a column of `by` is absent
compareNoFallback(base, comp, by, atol, rtol, order) ==
    IF KeyedMode(base, comp, by)
    THEN Finish(Header(base, comp) @@ KeyedFields(base, comp, by))
    ELSE IF by # <<>>
    THEN Finish(Header(base, comp))
    ELSE Finish([Header(base, comp) EXCEPT
                   !.differences =
                       PositionalDifferences(base, comp, atol, rtol, order)])

\* the report compare returns.  The keyed branch appends to its own list
\* `differences` and never stores it in the result.
compare(base, comp, by, atol, rtol, order) ==
    IF KeyedMode(base, comp, by)
    THEN Finish(Header(base, comp) @@ KeyedFields(base, comp, by))
    ELSE Finish([Header(base, comp) EXCEPT
                   !.differences =
                       PositionalDifferences(base, comp, atol, rtol, order)])

\* --------------------------------------------------------------- complibs
\* no report yet
None == [none |-> TRUE]

\* str.lower() on the file names of the libraries
lower(x) ==
    IF x = "DEMO" THEN "demo"
    ELSE IF x = ".SAS7BDAT" THEN ".sas7bdat"
    ELSE x

\* the keys of missing_map: "." and ".A" to ".Z" (the two ends of the
\* letters stand for the 26)
missing_map == {".", ".A", ".Z"}

\* handle_sas_missing(df): a copy with the SAS missing codes replaced by None
handle_sas_missing(df) ==
    [dtype |-> df.dtype,
     rows  |-> [i \in 1..len(df) |->
                  [c \in columns(df) |->
                      IF df.rows[i][c].kind = "str" /\ df.rows[i][c].s \in missing_map
                      THEN NaN
                      ELSE df.rows[i][c]]]]

\* the table the caller holds after handle_sas_missing(df): replace works
\* in place, on the copy
ArgumentAfterReplace(df) == df

\* ds[cols], and pd.DataFrame() when the list of columns is empty
Project(ds, cols) ==
    IF cols # <<>>
    THEN [dtype |-> [c \in {cols[k] : k \in 1..Len(cols)} |-> ds.dtype[c]],
          rows  |-> [i \in 1..len(ds) |->
                       [c \in {cols[k] : k \in 1..Len(cols)} |-> ds.rows[i][c]]]]
    ELSE [dtype |-> [c \in {} |-> "f"], rows |-> <<>>]

\* Presort by the first of the sortvars that both tables have
PresortFirstColumn(ds1, ds2, sortvars) ==
    LET sort_vars == SelectSeq(sortvars,
                         LAMBDA v : v \in columns(ds1) /\ v \in columns(ds2))
    IN  IF sortvars # <<>> /\ sort_vars # <<>>
        THEN <<sort_values(ds1, <<sort_vars[1]>>),
               sort_values(ds2, <<sort_vars[1]>>)>>
        ELSE <<ds1, ds2>>

\* the two tables after the sort by the sortvars that both tables have
Presort(ds1, ds2, sortvars) ==
    LET sort_vars == SelectSeq(sortvars,
                         LAMBDA v : v \in columns(ds1) /\ v \in columns(ds2))
    IN  IF sortvars # <<>> /\ sort_vars # <<>>
        THEN <<sort_values(ds1, sort_vars), sort_values(ds2, sort_vars)>>
        ELSE <<ds1, ds2>>

\* the entry of a dataset with the whole tables handed to compare
EntryWholeTables(table1, table2, sortvars, order) ==
    LET pair == Presort(handle_sas_missing(table1), handle_sas_missing(table2),
                        sortvars)
        ds1  == pair[1]
        ds2  == pair[2]
        v    == compvars(ds1, ds2, order)
    IN  [row_count_match |-> len(ds1) = len(ds2),
         ds1_rows   |-> len(ds1),
         ds2_rows   |-> len(ds2),
         vars_left  |-> v.vars_left,
         vars_right |-> v.vars_right,
         vars_both  |-> v.vars_both,
         comparison |-> compare(ds1, ds2, sortvars, 0, 0, order)]

\* the body of the loop of complibs after the two files are read: the entry
\* of one dataset.  compare runs at its default tolerances, which are below
\* one unit.
Entry(table1, table2, sortvars, order) ==
    LET pair == Presort(handle_sas_missing(table1), handle_sas_missing(table2),
                        sortvars)
        ds1  == pair[1]
        ds2  == pair[2]
        v    == compvars(ds1, ds2, order)
    IN  [row_count_match |-> len(ds1) = len(ds2),
         ds1_rows   |-> len(ds1),
         ds2_rows   |-> len(ds2),
         vars_left  |-> v.vars_left,
         vars_right |-> v.vars_right,
         vars_both  |-> v.vars_both,
         comparison |-> compare(Project(ds1, v.vars_both),
                                Project(ds2, v.vars_both), sortvars, 0, 0, order)]

\* the files of a listing whose name ends with .sas7bdat in any case
Sas7bdatFiles(files) ==
    SelectSeq(files, LAMBDA f : lower(f.ext) = ".sas7bdat")

\* the lower-case names of the files of a list, extension stripped
Names(files) == { lower(files[i].stem) : i \in 1..Len(files) }

\* next(f for f in files if splitext(f)[0].lower() == dataset)
FirstFile(files, dataset) ==
    files[CHOOSE i \in 1..Len(files) :
            /\ lower(files[i].stem) = dataset
            /\ \A j \in 1..(i - 1) : lower(files[j].stem) # dataset]

\* common_datasets
CommonDatasets(lib1, lib2) ==
    Names(Sas7bdatFiles(lib1.files)) \cap Names(Sas7bdatFiles(lib2.files))

\* the file system calls of complibs
IsDir(lib) == [op |-> "isdir", lib |-> lib, stem |-> "", ext |-> ""]

ListDir(lib) == [op |-> "listdir", lib |-> lib, stem |-> "", ext |-> ""]

ReadSas(lib, f) == [op |-> "read_sas", lib |-> lib, stem |-> f.stem, ext |-> f.ext]

\* the outcome of the two checks of complibs
FirstNotDir == "ValueError: First library path is not a directory"

SecondNotDir == "ValueError: Second library path is not a directory"

\* complibs that lists both libraries before it checks them
complibsListFirst(lib1, lib2, sortvars, order, dsorder) ==
    IF ~ lib1.isdir
    THEN [error |-> FirstNotDir, results |-> None, presorted |-> None,
          log |-> <<ListDir(1), ListDir(2), IsDir(1)>>]
    ELSE IF ~ lib2.isdir
    THEN [error |-> SecondNotDir, results |-> None, presorted |-> None,
          log |-> <<ListDir(1), ListDir(2), IsDir(1), IsDir(2)>>]
    ELSE LET lib1_files == Sas7bdatFiles(lib1.files)
             lib2_files == Sas7bdatFiles(lib2.files)
         IN  [error   |-> "",
              results |-> [dataset \in CommonDatasets(lib1, lib2) |->
                              Entry(FirstFile(lib1_files, dataset).table,
                                    FirstFile(lib2_files, dataset).table,
                                    sortvars, order)],
              presorted |-> [dataset \in CommonDatasets(lib1, lib2) |->
                              Presort(
                                handle_sas_missing(FirstFile(lib1_files, dataset).table),
                                handle_sas_missing(FirstFile(lib2_files, dataset).table),
                                sortvars)],
              log     |-> <<ListDir(1), ListDir(2), IsDir(1), IsDir(2)>>
                          \o Concat([k \in 1..Len(dsorder) |->
                                       <<ReadSas(1, FirstFile(lib1_files, dsorder[k])),
                                         ReadSas(2, FirstFile(lib2_files, dsorder[k]))>>],
                                    Len(dsorder))]

\* complibs(lib1_path, lib2_path, sortvars): the error raised or the
\* results returned, the file system calls made, in order, and the two
\* tables of every dataset as they are after the sort.  `dsorder` is
\* the order in which the set common_datasets is iterated.
complibs(lib1, lib2, sortvars, order, dsorder) ==
    IF ~ lib1.isdir
    THEN [error |-> FirstNotDir, results |-> None, presorted |-> None, log |-> <<IsDir(1)>>]
    ELSE IF ~ lib2.isdir
    THEN [error |-> SecondNotDir, results |-> None, presorted |-> None,
          log |-> <<IsDir(1), IsDir(2)>>]
    ELSE LET lib1_files == Sas7bdatFiles(lib1.files)
             lib2_files == Sas7bdatFiles(lib2.files)
         IN  [error   |-> "",
              results |-> [dataset \in CommonDatasets(lib1, lib2) |->
                              Entry(FirstFile(lib1_files, dataset).table,
                                    FirstFile(lib2_files, dataset).table,
                                    sortvars, order)],
              presorted |-> [dataset \in CommonDatasets(lib1, lib2) |->
                              Presort(
                                handle_sas_missing(FirstFile(lib1_files, dataset).table),
                                handle_sas_missing(FirstFile(lib2_files, dataset).table),
                                sortvars)],
              log     |-> <<IsDir(1), IsDir(2), ListDir(1), ListDir(2)>>
                          \o Concat([k \in 1..Len(dsorder) |->
                                       <<ReadSas(1, FirstFile(lib1_files, dsorder[k])),
                                         ReadSas(2, FirstFile(lib2_files, dsorder[k]))>>],
                                    Len(dsorder))]

\* --------------------------------------------------- compare_datasets.py
\* read_sas(file_path): the table of the file, or the error raised
read_sas(file_path) ==
    IF ~ file_path.exists
    THEN [error |-> "FileNotFoundError", df |-> None]
    ELSE IF lower(file_path.ext) = ".sas7bdat" \/ lower(file_path.ext) = ".xpt"
    THEN [error |-> "", df |-> file_path.table]
    ELSE [error |-> "ValueError", df |-> None]

\* the error of the first of the steps of a subcommand that raises, "" if
\* none does
FirstError(steps) ==
    IF \A i \in 1..Len(steps) : steps[i] = "" THEN ""
    ELSE steps[CHOOSE i \in 1..Len(steps) :
                 steps[i] # "" /\ \A j \in 1..(i - 1) : steps[j] = ""]

\* open(args.output, 'w') and json.dump, or print: the error raised
Output(output) == IF output = "unwritable" THEN "OSError" ELSE ""

\* where the result goes
Emitted(output) == IF output = "" THEN "stdout" ELSE "file"

\* a script that never calls sys.exit(1)
ExitCodeAlwaysZero(err) == 0

\* the exit status: sys.exit(1) in the except clause, 0 when the script
\* runs to its end
ExitCode(err) == IF err = "" THEN 0 ELSE 1

\* logger.error(f"{message}: {e}") in the except clause
Logged(message, err) ==
    IF err = "" THEN <<>> ELSE <<[message |-> message, e |-> err]>>

\* ------------------------------------------------------------ the inputs
Columns == {"id", "value", "name"}

KeyValues == {1, 2}

\* the cells a column of a dtype kind can hold, float cells within
\* -low..top: an int64 column holds no missing cell, an object column holds
\* texts, numbers and None
Cells(kind, low, top) ==
    IF kind = "i" THEN {Num(k) : k \in KeyValues}
    ELSE IF kind = "f" THEN {NaN} \cup {Num(k) : k \in (0 - low)..top}
    ELSE {NaN, Str("a"), Num(1)}

RowsOf(dtype, low, top) ==
    { row \in [DOMAIN dtype ->
                 UNION {Cells(k, low, top) : k \in {"i", "f", "O"}}] :
        \A c \in DOMAIN dtype : row[c] \in Cells(dtype[c], low, top) }

\* the tables of a schema with at most n rows
Tables(dtype, n, low, top) ==
    { [dtype |-> dtype, rows |-> rows] :
        rows \in UNION { [1..k -> RowsOf(dtype, low, top)] : k \in 0..n } }

Tolerances == 0..MaxTol

\* the schemas of the tables with rows
KeyedFloat == [id |-> "i", value |-> "f"]

KeyedObject == [id |-> "i", value |-> "O"]

PlainFloat == [value |-> "f"]

\* a key column that can hold missing cells
FloatKeyed == [id |-> "f", value |-> "f"]

\* the tables of one row at most, of every schema
OneRow ==
    UNION { Tables(d, 1, MaxVal, MaxVal) :
              d \in {KeyedFloat, KeyedObject, PlainFloat} }

\* the tables without rows, of every set of columns
NoRows == UNION { Tables([c \in cols |-> "f"], 0, 0, 0) : cols \in SUBSET Columns }

\* the file names of the libraries: a name and an extension, in lower or
\* upper case
FileNames ==
    [stem : {"demo", "DEMO", "other"},
     ext  : {".sas7bdat", ".SAS7BDAT", ".xpt", ".txt"}]

\* the table of the files of the libraries that differ by name only
DemoTable == [dtype |-> PlainFloat, rows |-> <<[value |-> Num(1)]>>]

\* a path that is no directory
NotADirectory == [isdir |-> FALSE, files |-> <<>>]

\* a directory of one file
OneFile(stem, ext, table) ==
    [isdir |-> TRUE,
     files |-> <<[stem |-> stem, ext |-> ext, table |-> table]>>]

\* the directories of at most two files of different names, as listed
Directories ==
    { [isdir |-> TRUE,
       files |-> [i \in 1..Len(names) |->
                    [stem |-> names[i].stem, ext |-> names[i].ext,
                     table |-> DemoTable]]] :
        names \in {<<>>} \cup {<<n>> : n \in FileNames}
                  \cup {p \in FileNames \X FileNames : p[1] # p[2]} }

\* the schemas of the tables of the files
KeyedName == [id |-> "i", name |-> "O"]

\* the cells of the tables of the files: an object column holds texts, SAS
\* missing codes and numbers
FileRows(dtype) ==
    { row \in [DOMAIN dtype ->
                 {Num(k) : k \in KeyValues}
                     \cup {NaN, Str("a"), Str(".")}] :
        \A c \in DOMAIN dtype :
            row[c] \in (IF dtype[c] = "i" THEN {Num(k) : k \in KeyValues}
                        ELSE IF dtype[c] = "f" THEN {NaN, Num(1)}
                        ELSE {Str("a"), Str("."), Num(1)}) }

\* the tables of the files of one row at most
OneRowFiles ==
    UNION { { [dtype |-> d, rows |-> rows] :
                rows \in {<<>>} \cup {<<r>> : r \in FileRows(d)} } :
            d \in {KeyedFloat, KeyedObject, KeyedName, PlainFloat} }

\* the tables of the files named on the command line
CliTables == Tables(KeyedFloat, 1, 0, 1)

\* the paths named on the command line: no file, or a file of a table
Paths ==
    {[exists |-> FALSE, ext |-> ".sas7bdat", table |-> None]}
        \cup [exists : {TRUE}, ext : {".sas7bdat", ".xpt", ".txt"},
              table : CliTables]

\* the directories named on the command line
CliDirectories ==
    {NotADirectory, [isdir |-> TRUE, files |-> <<>>]}
        \cup { OneFile("demo", ".sas7bdat", t) : t \in CliTables }

\* --output: absent, a path that can be written, a path that cannot
Outputs == {"", "writable", "unwritable"}

\* --------------------------------------------------------------- the state
VARIABLES base, comp, by, atol, rtol, order, pc, report, differences, ran,
          sorted, swapped, positional, vars, handled, again,
          lib1, lib2, sortvars, results, error, log, presorted,
          args, exit_code, logged, emitted

vars_ == <<base, comp, by, atol, rtol, order, pc, report, differences, ran,
          sorted, swapped, positional, vars, handled, again,
          lib1, lib2, sortvars, results, error, log, presorted,
          args, exit_code, logged, emitted>>

\* the command line and the outcome of the script
cli == <<args, exit_code, logged, emitted>>

\* the arguments and the outcome of complibs
libs == <<lib1, lib2, sortvars, results, error, log, presorted>>

inputs == <<base, comp, by, atol, rtol, order>>

\* tables of up to MaxRows rows with a key column, compared by position or
\* by key at the default tolerances (which are below one unit)
InitRows ==
    /\ base \in Tables(KeyedFloat, MaxRows, 0, 1)
    /\ comp \in Tables(KeyedFloat, MaxRows, 0, 1)
    /\ by \in {<<>>, <<"id">>}
    /\ atol = 0
    /\ rtol = 0

\* tables of one row at every tolerance
InitOneRow ==
    /\ base \in OneRow
    /\ comp \in OneRow
    /\ by \in {<<>>, <<"id">>}
    /\ atol \in Tolerances
    /\ rtol \in Tolerances

\* tables of any columns without rows
InitNoRows ==
    /\ base \in NoRows
    /\ comp \in NoRows
    /\ by \in {<<>>, <<"id">>, <<"id", "name">>}
    /\ atol = 0
    /\ rtol = 0

\* tables of up to MaxRows rows whose key cells can be missing, compared
\* by key
InitMissingKeys ==
    /\ base \in Tables(FloatKeyed, MaxRows, 0 - 1, 1)
    /\ comp \in Tables(FloatKeyed, MaxRows, 0 - 1, 1)
    /\ by = <<"id">>
    /\ atol = 0
    /\ rtol = 0

\* no library is compared
NoLibs ==
    /\ lib1 = [isdir |-> FALSE, files |-> <<>>]
    /\ lib2 = [isdir |-> FALSE, files |-> <<>>]
    /\ sortvars = <<>>
    /\ results = None
    /\ error = ""
    /\ log = <<>>
    /\ presorted = None

\* the script is not run
NoCli ==
    /\ args = None
    /\ exit_code = None
    /\ logged = <<>>
    /\ emitted = ""

\* tables as read from files, of one row at most, whose text cells can
\* hold a SAS missing code; `by` names a column that some tables lack
InitFiles ==
    /\ base \in OneRowFiles
    /\ comp \in OneRowFiles
    /\ by = <<"name", "id">>
    /\ atol = 0
    /\ rtol = 0

\* nothing is called yet
NoCalls ==
    /\ NoLibs
    /\ NoCli
    /\ order \in Orders(columns(base) \cup columns(comp))
    /\ pc = "start"
    /\ report = None
    /\ differences = <<>>
    /\ ran = {}
    /\ sorted = None
    /\ swapped = None
    /\ positional = None
    /\ vars = None
    /\ handled = None
    /\ again = None

Init ==
    /\ InitRows \/ InitOneRow \/ InitNoRows \/ InitMissingKeys \/ InitFiles
    /\ NoCalls

\* compare(base, comp, by, numeric_abs_tol, numeric_rel_tol)
Compare ==
    /\ pc = "start"
    /\ pc' = "compared"
    /\ report' = compare(base, comp, by, atol, rtol, order)
    /\ base' = (IF KeyedMode(base, comp, by)
                THEN ArgumentAfterSort(base, by) ELSE base)
    /\ comp' = (IF KeyedMode(base, comp, by)
                THEN ArgumentAfterSort(comp, by) ELSE comp)
    /\ ran' = Branches(base, comp, by)
    /\ sorted' = IF KeyedMode(base, comp, by)
                 THEN [base |-> sort_values(base, by),
                       comp |-> sort_values(comp, by)]
                 ELSE None
    /\ IF KeyedMode(base, comp, by)
       THEN \E keyorder \in Orders(CommonKeys(base, comp, by)) :
               differences' =
                   KeyedDifferences(base, comp, by, atol, rtol, order, keyorder)
       ELSE differences' = report'.differences
    /\ UNCHANGED <<by, atol, rtol, order, swapped, positional, vars, handled,
                   again, libs, cli>>

\* compare(comp, base, by, numeric_abs_tol, numeric_rel_tol) after it
CompareSwapped ==
    /\ pc = "compared"
    /\ pc' = "swapped"
    /\ swapped' = compare(comp, base, by, atol, rtol, order)
    /\ UNCHANGED <<inputs, report, differences, ran, sorted, positional, vars,
                   handled, again, libs, cli>>

\* compare(base, comp) with no `by`, after compare(base, comp, by)
CompareNoBy ==
    /\ pc = "compared"
    /\ by # <<>>
    /\ pc' = "positional"
    /\ positional' = compare(base, comp, <<>>, atol, rtol, order)
    /\ UNCHANGED <<inputs, report, differences, ran, sorted, swapped, vars,
                   handled, again, libs, cli>>

\* compvars(base, comp)
Compvars ==
    /\ pc = "start"
    /\ pc' = "compvars"
    /\ vars' = compvars(base, comp, order)
    /\ UNCHANGED <<inputs, report, differences, ran, sorted, swapped, positional,
                   handled, again, libs, cli>>

\* handle_sas_missing(base)
HandleSasMissing ==
    /\ pc = "start"
    /\ pc' = "handled"
    /\ handled' = handle_sas_missing(base)
    /\ base' = ArgumentAfterReplace(base)
    /\ UNCHANGED <<comp, by, atol, rtol, order, report, differences, ran, sorted,
                   swapped, positional, vars, again, libs, cli>>

\* compare(base, comp, by, numeric_abs_tol, numeric_rel_tol) once more, in
\* a run in which the sets are iterated in another order
CompareAgain ==
    /\ pc = "compared"
    /\ pc' = "again"
    /\ \E order2 \in Orders(columns(base) \cup columns(comp)) :
          again' = compare(base, comp, by, atol, rtol, order2)
    /\ UNCHANGED <<inputs, report, differences, ran, sorted, swapped, positional,
                   vars, handled, libs, cli>>

Next == Compare \/ CompareSwapped \/ CompareNoBy \/ Compvars

Spec == Init /\ [][Next]_vars_

\* the tables on which a call is followed by a look at its arguments or by
\* a second call
InitCalls ==
    /\ InitOneRow \/ InitMissingKeys \/ InitFiles
    /\ NoCalls

NextCalls == Compare \/ HandleSasMissing \/ CompareAgain

SpecCalls == InitCalls /\ [][NextCalls]_vars_

\* two paths, directories or not, whose files differ by name only
InitNames ==
    /\ lib1 \in Directories \cup {NotADirectory}
    /\ lib2 \in Directories \cup {NotADirectory}
    /\ sortvars = <<>>
    /\ order = <<"value">>

\* two directories that hold one file demo.sas7bdat each, of one row at
\* most and of any schema
InitOneRowFiles ==
    /\ \E t \in OneRowFiles : lib1 = OneFile("demo", ".sas7bdat", t)
    /\ \E t \in OneRowFiles : lib2 = OneFile("demo", ".sas7bdat", t)
    /\ sortvars \in {<<>>, <<"id">>, <<"name", "id">>}
    /\ order \in Orders(columns(lib1.files[1].table)
                            \cup columns(lib2.files[1].table))

\* two directories that hold one file demo.sas7bdat each, of up to MaxRows
\* rows of one schema
InitRowsFiles ==
    /\ \E t \in Tables(KeyedFloat, MaxRows, 0 - 1, 1) :
          lib1 = OneFile("demo", ".sas7bdat", t)
    /\ \E t \in Tables(KeyedFloat, MaxRows, 0 - 1, 1) :
          lib2 = OneFile("demo", ".sas7bdat", t)
    /\ sortvars \in {<<>>, <<"id">>, <<"name", "id">>, <<"value", "id">>}
    /\ order \in Orders({"id", "value"})

\* the libraries complibs is called on; compare is not called on its own
InitLibs ==
    /\ InitNames \/ InitOneRowFiles \/ InitRowsFiles
    /\ NoCli
    /\ results = None
    /\ error = ""
    /\ log = <<>>
    /\ presorted = None
    /\ base = [dtype |-> [c \in {} |-> "f"], rows |-> <<>>]
    /\ comp = [dtype |-> [c \in {} |-> "f"], rows |-> <<>>]
    /\ by = <<>>
    /\ atol = 0
    /\ rtol = 0
    /\ pc = "start"
    /\ report = None
    /\ differences = <<>>
    /\ ran = {}
    /\ sorted = None
    /\ swapped = None
    /\ positional = None
    /\ vars = None
    /\ handled = None
    /\ again = None

\* complibs(lib1_path, lib2_path, sortvars)
Complibs ==
    /\ pc = "start"
    /\ pc' = "complibs"
    /\ \E dsorder \in Orders(CommonDatasets(lib1, lib2)) :
          LET out == complibs(lib1, lib2, sortvars, order, dsorder)
          IN  /\ results' = out.results
              /\ error' = out.error
              /\ log' = out.log
              /\ presorted' = out.presorted
    /\ UNCHANGED <<inputs, report, differences, ran, sorted, swapped,
                   positional, vars, handled, again, lib1, lib2, sortvars, cli>>

NextLibs == Complibs

SpecLibs == InitLibs /\ [][NextLibs]_vars_

\* the command lines argparse accepts: a subcommand with its two paths and
\* its options, or no subcommand
InitArgs ==
    \/ args \in [command : {"compvars"}, base : Paths, comp : Paths,
                 by : {<<>>}, output : Outputs]
    \/ args \in [command : {"compare"}, base : Paths, comp : Paths,
                 by : {<<>>, <<"id">>}, output : Outputs]
    \/ args \in [command : {"complibs"}, base : CliDirectories,
                 comp : CliDirectories, by : {<<>>, <<"id">>},
                 output : Outputs]
    \/ args = [command |-> "", base |-> None, comp |-> None, by |-> <<>>,
               output |-> ""]

\* the script is started; nothing is read yet
InitCli ==
    /\ InitArgs
    /\ exit_code = None
    /\ logged = <<>>
    /\ emitted = ""
    /\ NoLibs
    /\ base = None
    /\ comp = None
    /\ by = <<>>
    /\ atol = 0
    /\ rtol = 0
    /\ order = <<"id", "value">>
    /\ pc = "start"
    /\ report = None
    /\ differences = <<>>
    /\ ran = {}
    /\ sorted = None
    /\ swapped = None
    /\ positional = None
    /\ vars = None
    /\ handled = None
    /\ again = None

\* what no subcommand of the script changes
CliFrame ==
    UNCHANGED <<args, by, atol, rtol, order, differences, ran, sorted, swapped,
                positional, handled, again, lib1, lib2, sortvars, error, log,
                presorted>>

\* the subcommand compvars
MainCompvars ==
    /\ pc = "start"
    /\ args.command = "compvars"
    /\ pc' = "exit"
    /\ LET base_df == read_sas(args.base)
           comp_df == IF base_df.error = "" THEN read_sas(args.comp)
                      ELSE [error |-> "", df |-> None]
           read    == base_df.error = "" /\ comp_df.error = ""
           err     == FirstError(<<base_df.error, comp_df.error,
                                   Output(args.output)>>)
       IN  /\ base' = base_df.df
           /\ comp' = comp_df.df
           /\ vars' = IF read THEN compvars(base_df.df, comp_df.df, order)
                      ELSE None
           /\ emitted' = IF err = "" THEN Emitted(args.output) ELSE ""
           /\ logged' = Logged("Error comparing variables", err)
           /\ exit_code' = ExitCode(err)
    /\ UNCHANGED <<report, results>>
    /\ CliFrame

\* the subcommand complibs
MainComplibs ==
    /\ pc = "start"
    /\ args.command = "complibs"
    /\ pc' = "exit"
    /\ \E dsorder \in Orders(CommonDatasets(args.base, args.comp)) :
          LET out == complibs(args.base, args.comp, args.by, order, dsorder)
              err == FirstError(<<out.error, Output(args.output)>>)
          IN  /\ results' = out.results
              /\ emitted' = IF err = "" THEN Emitted(args.output) ELSE ""
              /\ logged' = Logged("Error comparing libraries", err)
              /\ exit_code' = ExitCode(err)
    /\ UNCHANGED <<base, comp, report, vars>>
    /\ CliFrame

\* the subcommand compare, at the default tolerances of the command line
\* (which are below one unit)
MainCompare ==
    /\ pc = "start"
    /\ args.command = "compare"
    /\ pc' = "exit"
    /\ LET base_df == read_sas(args.base)
           comp_df == IF base_df.error = "" THEN read_sas(args.comp)
                      ELSE [error |-> "", df |-> None]
           read    == base_df.error = "" /\ comp_df.error = ""
           err     == FirstError(<<base_df.error, comp_df.error,
                                   Output(args.output)>>)
       IN  /\ base' = base_df.df
           /\ comp' = comp_df.df
           /\ report' = IF read
                        THEN compare(base_df.df, comp_df.df, args.by, 0, 0, order)
                        ELSE None
           /\ emitted' = IF err = "" THEN Emitted(args.output) ELSE ""
           /\ logged' = Logged("Error comparing datasets", err)
           /\ exit_code' = ExitCode(err)
    /\ UNCHANGED <<vars, results>>
    /\ CliFrame

\* no subcommand: parser.print_help() and sys.exit(1)
MainHelp ==
    /\ pc = "start"
    /\ args.command = ""
    /\ pc' = "exit"
    /\ emitted' = "help"
    /\ exit_code' = ExitCode("no command")
    /\ UNCHANGED <<base, comp, report, vars, results, logged>>
    /\ CliFrame

NextCli == MainCompvars \/ MainComplibs \/ MainCompare \/ MainHelp

SpecCli == InitCli /\ [][NextCli]_vars_

\* ------------------------------------------------------------- the claims
\* the records of a list for the cell pair of a column and a row index
RecordsAt(diffs, col, row) ==
    SelectSeq(diffs, LAMBDA r : /\ "variable" \in DOMAIN r
                                /\ "row" \in DOMAIN r
                                /\ r.variable = col
                                /\ r.row = row)

\* the columns of both tables
CommonColumns == columns(base) \cap columns(comp)

\* the numeric tolerance rule as the specification words it
WithinTolerance(a, b) ==
    \/ abs(a - b) <= atol
    \/ abs(a - b) <= rtol * max(abs(a), abs(b))

\* the comparator of the specification: equality of two cells
ValuesEqual(a, b) ==
    IF isna(a) \/ isna(b) THEN isna(a) /\ isna(b)
    ELSE IF a.kind = "num" /\ b.kind = "num" THEN WithinTolerance(a.n, b.n)
    ELSE a = b

\* the key tuples of either table
AllKeys == {k.key : k \in KeySet(base, by, 0) \cup KeySet(comp, by, MaxRows + 1)}

\* both tables have the same number of rows for every key
SameKeyRows ==
    \A key \in AllKeys : Len(Group(base, by, key)) = Len(Group(comp, by, key))

\* the non-key cell pairs of the rows paired by key that are not equal
UnequalKeyedPairs ==
    LET base_sorted == sort_values(base, by)
        comp_sorted == sort_values(comp, by)
    IN  { p \in (1..len(base)) \X (CommonColumns \ ByColumns(by)) :
            ~ ValuesEqual(base_sorted.rows[p[1]][p[2]],
                          comp_sorted.rows[p[1]][p[2]]) }

\* C1: comparing by key two tables that have the same key values and the
\* same number of rows per key, the report holds one record for every
\* non-key cell pair that is not equal; a pair of unequal numbers gives a
\* value_mismatch record with difference = comp_value - base_value, and
\* match is False when there is such a pair.
C1_KeyedReportsDifferences ==
    (pc = "compared" /\ KeyedMode(base, comp, by) /\ SameKeyRows) =>
        /\ Len(report.differences) = Cardinality(UnequalKeyedPairs)
        /\ UnequalKeyedPairs # {} => report.match = FALSE

\* the reports made so far
Reports == {r \in {report, swapped, positional} : r # None}

\* C2: every report has difference_count = length of differences and
\* match = (difference_count = 0), by key and by position.
C2_CountAndMatch ==
    \A r \in Reports :
        /\ r.difference_count = Len(r.differences)
        /\ r.match = (r.difference_count = 0)

C2_Witness ==
    /\ pc = "swapped"
    /\ ran = {"positional"}
    /\ report.difference_count = 3
    /\ report.match = FALSE
    /\ report.row_count_match = FALSE
    /\ swapped.difference_count = 3

\* a table has a missing cell
HasMissing(t) ==
    \E i \in 1..len(t) : \E c \in columns(t) : isna(t.rows[i][c])

\* C3: comparing a table with a copy of itself, with or without key
\* columns, gives match = True, difference_count = 0 and
\* row_count_match = True (and the keyed branch lists no difference).
C3_Idempotence ==
    (pc \in {"compared", "swapped", "positional", "again"} /\ base = comp) =>
        /\ report.match = TRUE
        /\ report.difference_count = 0
        /\ report.row_count_match = TRUE
        /\ differences = <<>>

C3_Witness ==
    /\ pc = "compared"
    /\ base = comp
    /\ len(base) = 2
    /\ HasMissing(base)
    /\ \E i \in 1..len(base) : base.rows[i]["value"] = Num(1)
    /\ report.match = TRUE

\* the `difference` fields of a list of records
Deltas(diffs) ==
    {<<i, diffs[i].difference>> :
        i \in {j \in 1..Len(diffs) : "difference" \in DOMAIN diffs[j]}}

\* C4: compare(A, B) and compare(B, A) agree on match and on the number of
\* records, and their `difference` fields are equal in size and opposite in
\* sign.
C4_Symmetry ==
    pc = "swapped" =>
        /\ report.match = swapped.match
        /\ Len(report.differences) = Len(swapped.differences)
        /\ Deltas(swapped.differences) =
               {<<d[1], 0 - d[2]>> : d \in Deltas(report.differences)}

\* C5: two non-missing numbers a (base) and b (comp) of float columns give
\* no record if abs(a-b) <= abs_tol or abs(a-b) <= rel_tol * max(abs(a),
\* abs(b)), and a value_mismatch record otherwise (stated for the pairs
\* compared by position).
C5_ToleranceRule ==
    (pc = "compared" /\ ran = {"positional"}) =>
        \A col \in CommonColumns : \A i \in 1..min(len(base), len(comp)) :
            LET a == base.rows[i][col]
                b == comp.rows[i][col]
                recs == RecordsAt(report.differences, col, i - 1)
            IN  (BothFloat(base, comp, col) /\ ~ isna(a) /\ ~ isna(b)) =>
                    IF WithinTolerance(a.n, b.n)
                    THEN recs = <<>>
                    ELSE Len(recs) = 1 /\ recs[1].issue = "value_mismatch"

\* the records of a list for the cell pair of a key, a column and a row
\* index within the group of the key
KeyedRecordsAt(diffs, key, col, row) ==
    SelectSeq(diffs, LAMBDA r : /\ "by_values" \in DOMAIN r
                                /\ "row" \in DOMAIN r
                                /\ r.by_values = key
                                /\ r.variable = col
                                /\ r.row = row)

\* the cell pairs compare aligns: by position, (column, row number) below
\* the smaller row count; by key, (key, column, row number in the group) of
\* the common keys whose groups have the same length
PositionalPairs ==
    CommonColumns \X (1..min(len(base), len(comp)))

KeyedPairs ==
    { p \in {k.key : k \in CommonKeys(base, comp, by)}
              \X (CommonColumns \ ByColumns(by)) \X (1..MaxRows) :
        /\ Len(Group(base, by, p[1])) = Len(Group(comp, by, p[1]))
        /\ p[3] <= Len(Group(base, by, p[1])) }

\* the two cells of a pair aligned by key
KeyedCells(p) ==
    << Group(sort_values(base, by), by, p[1])[p[3]][p[2]],
       Group(sort_values(comp, by), by, p[1])[p[3]][p[2]] >>

\* C6: a pair of two missing cells gives no record, whatever the kind of the
\* column, by position and by key; two equal tables with missing cells give
\* match = True.
C6_BothMissingEqual ==
    pc = "compared" =>
        /\ ran = {"positional"} =>
              \A p \in PositionalPairs :
                  (isna(base.rows[p[2]][p[1]]) /\ isna(comp.rows[p[2]][p[1]]))
                      => RecordsAt(report.differences, p[1], p[2] - 1) = <<>>
        /\ ran = {"keyed"} =>
              \A p \in KeyedPairs :
                  (isna(KeyedCells(p)[1]) /\ isna(KeyedCells(p)[2])) =>
                      /\ KeyedRecordsAt(report.differences, p[1], p[2], p[3] - 1) = <<>>
                      /\ KeyedRecordsAt(differences, p[1], p[2], p[3] - 1) = <<>>
        /\ (base = comp /\ HasMissing(base)) => report.match = TRUE

C6_Witness ==
    /\ pc = "compared"
    /\ ran = {"positional"}
    /\ \E p \in PositionalPairs :
          /\ base.dtype[p[1]] = "O"
          /\ comp.dtype[p[1]] = "f"
          /\ isna(base.rows[p[2]][p[1]])
          /\ isna(comp.rows[p[2]][p[1]])
    /\ report.difference_count = 1

\* exactly one of the two cells is missing
OneMissing(a, b) == isna(a) # isna(b)

\* a list holds one record only, a missing_value_mismatch
OnlyMissingMismatch(recs) ==
    Len(recs) = 1 /\ recs[1].issue = "missing_value_mismatch"

\* C7 by position
C7_Positional ==
    (pc = "compared" /\ ran = {"positional"}) =>
        \A p \in PositionalPairs :
            OneMissing(base.rows[p[2]][p[1]], comp.rows[p[2]][p[1]]) =>
                OnlyMissingMismatch(RecordsAt(report.differences, p[1], p[2] - 1))

\* C7 by key
C7_Keyed ==
    (pc = "compared" /\ ran = {"keyed"}) =>
        \A p \in KeyedPairs :
            OneMissing(KeyedCells(p)[1], KeyedCells(p)[2]) =>
                OnlyMissingMismatch(
                    KeyedRecordsAt(report.differences, p[1], p[2], p[3] - 1))

\* C7: a pair of which exactly one cell is missing gives exactly one record,
\* a missing_value_mismatch and never a value_mismatch, whatever the kind of
\* the column and the tolerances.
C7_OneMissingMismatch == C7_Positional /\ C7_Keyed

\* the members of a sequence
Range(seq) == {seq[i] : i \in 1..Len(seq)}

\* C8: the three lists of compvars are pairwise disjoint, hold no name
\* twice, and together hold the column names of both tables; tables of the
\* same columns give (empty, empty, the columns).
C8_CompvarsPartition ==
    pc = "compvars" =>
        /\ Range(vars.vars_left) \cap Range(vars.vars_right) = {}
        /\ Range(vars.vars_left) \cap Range(vars.vars_both) = {}
        /\ Range(vars.vars_right) \cap Range(vars.vars_both) = {}
        /\ \A l \in {vars.vars_left, vars.vars_right, vars.vars_both} :
              Len(l) = Cardinality(Range(l))
        /\ Range(vars.vars_left) \cup Range(vars.vars_right)
              \cup Range(vars.vars_both) = columns(base) \cup columns(comp)
        /\ columns(base) = columns(comp) =>
              /\ vars.vars_left = <<>>
              /\ vars.vars_right = <<>>
              /\ Range(vars.vars_both) = columns(base)

C8_Witness ==
    /\ pc = "compvars"
    /\ vars.vars_left = <<"id">>
    /\ vars.vars_right = <<"name">>
    /\ vars.vars_both = <<"value">>

\* the fields only the keyed branch sets
KeyedModeFields ==
    {"by_group_count_match", "base_only_groups", "comp_only_groups",
     "common_groups"}

\* C9: with a `by` that names a column one of the tables lacks, compare
\* returns the differences, match and difference_count of the call without
\* `by`, and a report without the fields of the keyed branch.
C9_SilentFallback ==
    (pc = "positional" /\ by # <<>> /\ ~ (ByColumns(by) \subseteq CommonColumns)) =>
        /\ report.differences = positional.differences
        /\ report.match = positional.match
        /\ report.difference_count = positional.difference_count
        /\ DOMAIN report \cap KeyedModeFields = {}

C9_Witness ==
    /\ pc = "positional"
    /\ by = <<"id">>
    /\ "id" \in columns(base)
    /\ "id" \notin columns(comp)
    /\ len(base) = 1
    /\ len(comp) = 1
    /\ report.difference_count = 1
    /\ positional.difference_count = 1

\* C10 as first stated: one branch runs, and a non-empty `by` selects the
\* keyed branch.
C10_NonEmptyBySelectsKeyed ==
    pc = "compared" =>
        /\ Cardinality(ran) = 1
        /\ by # <<>> => ran = {"keyed"}

\* C10: exactly one branch runs; the keyed branch runs if and only if `by`
\* is non-empty and every column it names is a column of both tables, and
\* then only the report carries the fields of the keyed branch.
C10_ModeExclusive ==
    pc = "compared" =>
        /\ Cardinality(ran) = 1
        /\ ran = {"keyed"} <=> (by # <<>> /\ ByColumns(by) \subseteq CommonColumns)
        /\ ran = {"keyed"} <=> KeyedModeFields \subseteq DOMAIN report
        /\ ran = {"positional"} <=> DOMAIN report \cap KeyedModeFields = {}

C10_Witness ==
    /\ pc = "compared"
    /\ by = <<"id">>
    /\ "id" \notin columns(comp)
    /\ ran = {"positional"}
    /\ len(base) = 1
    /\ len(comp) = 1

\* C11: every record of the report (and of the list of the keyed branch)
\* that names a variable names a column of both base and comp.
C11_VariablesAreShared ==
    pc = "compared" =>
        \A r \in Range(report.differences) \cup Range(differences) :
            "variable" \in DOMAIN r => r.variable \in CommonColumns

C11_Witness ==
    /\ pc = "compared"
    /\ columns(base) \ columns(comp) # {}
    /\ len(base) = 1
    /\ len(comp) = 1
    /\ \E r \in Range(report.differences) :
          "variable" \in DOMAIN r /\ r.variable = "value"

\* the records of a list with an issue
WithIssue(diffs, issue) == SelectSeq(diffs, LAMBDA r : r.issue = issue)

\* C12: by position, the report holds one row_count_mismatch record (with
\* base_rows and comp_rows and no variable) when the row counts differ and
\* none when they are equal; every cell record has a row index below
\* min(base_rows, comp_rows) and holds the cells of that row of base and of
\* comp, so the surplus rows give no record.
C12_PositionalRowCounts ==
    (pc = "compared" /\ ran = {"positional"}) =>
        /\ Len(WithIssue(report.differences, "row_count_mismatch")) =
               IF len(base) # len(comp) THEN 1 ELSE 0
        /\ \A r \in Range(WithIssue(report.differences, "row_count_mismatch")) :
              /\ r.base_rows = len(base)
              /\ r.comp_rows = len(comp)
              /\ "variable" \notin DOMAIN r
        /\ \A r \in Range(report.differences) :
              r.issue # "row_count_mismatch" =>
                  /\ r.row >= 0
                  /\ r.row < min(len(base), len(comp))
                  /\ r.base_value = base.rows[r.row + 1][r.variable]
                  /\ r.comp_value = comp.rows[r.row + 1][r.variable]

C12_Witness ==
    /\ pc = "compared"
    /\ ran = {"positional"}
    /\ len(base) = 2
    /\ len(comp) = 1
    /\ base.rows[2] # comp.rows[1]
    /\ Len(WithIssue(report.differences, "row_count_mismatch")) = 1
    /\ Len(WithIssue(report.differences, "value_mismatch")) = 1

\* the common keys whose groups differ in length
UnevenKeys ==
    { k.key : k \in { c \in CommonKeys(base, comp, by) :
                        Len(Group(base, by, c.key)) # Len(Group(comp, by, c.key)) } }

\* the cell pairs of the groups of a key below the shorter length that the
\* comparison finds different
UnevenDifferentPairs(key) ==
    LET base_group == Group(sort_values(base, by), by, key)
        comp_group == Group(sort_values(comp, by), by, key)
    IN  { p \in (CommonColumns \ ByColumns(by))
                  \X (1..min(Len(base_group), Len(comp_group))) :
            CellRecords(<<>>, base_group[p[2]][p[1]], comp_group[p[2]][p[1]],
                        BothFloat(base, comp, p[1]), atol, rtol) # <<>> }

\* the claim of C13 about a list of records
GroupRowCountsIn(diffs) ==
    \A key \in UnevenKeys :
        /\ \E r \in Range(WithIssue(diffs, "row_count_mismatch")) :
              r.by_values = key
        /\ \A p \in UnevenDifferentPairs(key) :
              KeyedRecordsAt(diffs, key, p[1], p[2] - 1) # <<>>

\* C13: by key, a common key whose groups have different row counts gives
\* a row_count_mismatch record for that key, and the cells of the two
\* groups are still compared position by position below the shorter length.
C13_KeyedGroupRowCounts ==
    (pc = "compared" /\ ran = {"keyed"}) => GroupRowCountsIn(report.differences)

\* a row has a missing cell in a key column
MissingKey(row) == \E k \in 1..Len(by) : isna(row[by[k]])

\* the key tuples of a table that hold no missing cell
PlainKeys(t) ==
    { KeyTuple(t.rows[i], by) : i \in {j \in 1..len(t) : ~ MissingKey(t.rows[j])} }

\* the number of distinct key tuples of a table: a tuple that holds NaN is
\* equal to no tuple, so every row with a missing key cell counts
DistinctKeys(t) ==
    Cardinality(PlainKeys(t))
        + Cardinality({j \in 1..len(t) : MissingKey(t.rows[j])})

MissingFirst(t) ==
    \A i, j \in 1..len(t) :
        i < j =>
            /\ ~ (MissingKey(t.rows[j]) /\ ~ MissingKey(t.rows[i]))
            /\ (~ MissingKey(t.rows[i]) /\ ~ MissingKey(t.rows[j])) =>
                  ~ KeyLess(KeyTuple(t.rows[j], by), KeyTuple(t.rows[i], by))

\* C15: by key, both tables are sorted by the key columns ascending with
\* the rows of missing key cells before the rows of non-missing key cells.
C15_SortMissingFirst ==
    (pc = "compared" /\ ran = {"keyed"}) =>
        MissingFirst(sorted.base) /\ MissingFirst(sorted.comp)

\* the records of the report and of the list of the keyed branch
AllRecords == Range(report.differences) \cup Range(differences)

Mixed(a, b) ==
    \/ a.kind = "num" /\ b.kind = "str"
    \/ a.kind = "str" /\ b.kind = "num"

\* a list holds one record only, a value_mismatch
OnlyValueMismatch(recs) ==
    Len(recs) = 1 /\ recs[1].issue = "value_mismatch"

\* C17 by position
C17_Positional ==
    (pc = "compared" /\ ran = {"positional"}) =>
        \A p \in PositionalPairs :
            Mixed(base.rows[p[2]][p[1]], comp.rows[p[2]][p[1]]) =>
                OnlyValueMismatch(RecordsAt(report.differences, p[1], p[2] - 1))

\* C17 by key
C17_Keyed ==
    (pc = "compared" /\ ran = {"keyed"}) =>
        \A p \in KeyedPairs :
            Mixed(KeyedCells(p)[1], KeyedCells(p)[2]) =>
                OnlyValueMismatch(
                    KeyedRecordsAt(report.differences, p[1], p[2], p[3] - 1))

\* C17: a pair of a number and a text gives a value_mismatch record,
\* whatever the tolerances and whichever table holds the number.
C17_MixedTypeMismatch == C17_Positional /\ C17_Keyed

\* C18: complibs fails when either path is no directory: the paths are
\* checked, the first before the second, before any file is listed or
\* read, and no report is returned.
C18_NotADirectory ==
    (pc = "complibs" /\ (~ lib1.isdir \/ ~ lib2.isdir)) =>
        /\ error \in {FirstNotDir, SecondNotDir}
        /\ results = None
        /\ \A i \in 1..Len(log) : log[i].op = "isdir"
        /\ Head(log) = IsDir(1)
        /\ ~ lib1.isdir => (error = FirstNotDir /\ log = <<IsDir(1)>>)
        /\ lib1.isdir => (error = SecondNotDir /\ log = <<IsDir(1), IsDir(2)>>)

C18_Witness ==
    /\ pc = "complibs"
    /\ lib1.isdir
    /\ Len(lib1.files) = 2
    /\ ~ lib2.isdir
    /\ error = SecondNotDir

\* the extensions read_sas reads, in any case
Supported(f) == lower(f.ext) \in {".sas7bdat", ".xpt"}

\* the dataset names of a library: the names of its files of a supported
\* extension, in lower case and without the extension
DatasetNames(lib) ==
    { lower(f.stem) : f \in {g \in Range(lib.files) : Supported(g)} }

\* C19: the keys of the report of complibs are the dataset names that both
\* directories hold, matched without regard to case and with the extension
\* stripped, whatever the supported extension of the files.
C19_ReportKeys ==
    (pc = "complibs" /\ error = "") =>
        DOMAIN results = DatasetNames(lib1) \cap DatasetNames(lib2)

\* C20: in every entry of the report of complibs the nested comparison is
\* of the shared columns only: the two tables compared have the columns
\* vars_both, column_names_match is True, and every variable of a
\* difference record is in vars_both and in neither vars_left nor
\* vars_right.
C20_SharedColumnsOnly ==
    (pc = "complibs" /\ error = "") =>
        \A dataset \in DOMAIN results :
            LET entry == results[dataset]
            IN  /\ entry.comparison.column_names_match
                /\ entry.comparison.base_columns = Len(entry.vars_both)
                /\ entry.comparison.comp_columns = Len(entry.vars_both)
                /\ \A r \in Range(entry.comparison.differences) :
                      "variable" \in DOMAIN r =>
                          /\ r.variable \in Range(entry.vars_both)
                          /\ r.variable \notin Range(entry.vars_left)
                                                 \cup Range(entry.vars_right)

C20_Witness ==
    /\ pc = "complibs"
    /\ error = ""
    /\ \E dataset \in DOMAIN results :
          /\ results[dataset].vars_left # <<>>
          /\ results[dataset].vars_right # <<>>
          /\ results[dataset].vars_both # <<>>
          /\ \E r \in Range(results[dataset].comparison.differences) :
                "variable" \in DOMAIN r

\* the table of a dataset as read from a library
AsRead(lib, dataset) ==
    handle_sas_missing(FirstFile(Sas7bdatFiles(lib.files), dataset).table)

\* the requested sort columns that both tables of a dataset have, in the
\* requested order
SharedSortColumns(dataset) ==
    SelectSeq(sortvars, LAMBDA v : /\ v \in columns(AsRead(lib1, dataset))
                                   /\ v \in columns(AsRead(lib2, dataset)))

\* a table holds the rows of another, each as many times
SameRows(t, u) ==
    /\ t.dtype = u.dtype
    /\ len(t) = len(u)
    /\ \A r \in Range(t.rows) \cup Range(u.rows) :
          Cardinality({i \in 1..len(t) : t.rows[i] = r})
              = Cardinality({i \in 1..len(u) : u.rows[i] = r})

\* no cell of the key columns of a row is missing
FullKey(row, cols) == \A k \in 1..Len(cols) : ~ isna(row[cols[k]])

\* the rows of a table whose key cells are not missing ascend by the key
\* columns, the first column first
Ascending(t, cols) ==
    \A i, j \in 1..len(t) :
        (i < j /\ FullKey(t.rows[i], cols) /\ FullKey(t.rows[j], cols)) =>
            ~ KeyLess(KeyTuple(t.rows[j], cols), KeyTuple(t.rows[i], cols))

\* a table is another sorted by the key columns, or the other as it is
\* when there is no key column
SortedBy(t, u, cols) ==
    IF cols = <<>> THEN t = u
    ELSE SameRows(t, u) /\ Ascending(t, cols)

\* C21: complibs sorts the two tables of a dataset by the requested sort
\* columns that both tables have, in the requested order; it ignores the
\* others, and leaves the rows as read when no requested column is in both
\* tables or none is requested.
C21_PresortBySharedColumns ==
    (pc = "complibs" /\ error = "") =>
        \A dataset \in DOMAIN results :
            /\ SortedBy(presorted[dataset][1], AsRead(lib1, dataset),
                        SharedSortColumns(dataset))
            /\ SortedBy(presorted[dataset][2], AsRead(lib2, dataset),
                        SharedSortColumns(dataset))

C21_Witness ==
    /\ pc = "complibs"
    /\ error = ""
    /\ sortvars = <<"value", "id">>
    /\ presorted["demo"][1] # AsRead(lib1, "demo")
    /\ len(presorted["demo"][1]) = 2
    /\ presorted["demo"][1].rows[1].value = presorted["demo"][1].rows[2].value

\* C22: no call mutates its inputs: after compare, by key or by position,
\* base and comp hold the rows and columns they held before, in the same
\* order, the sort having worked on copies; after handle_sas_missing its
\* argument is unchanged and the result is a new table.
C22_InputsNotMutated == [][base' = base /\ comp' = comp]_vars_

C22_Witness ==
    /\ pc = "compared"
    /\ ran = {"keyed"}
    /\ len(base) = 2
    /\ sorted.base # base
    /\ sorted.comp # comp

\* C23: two calls of compare on equal inputs return equal reports, the
\* records of `differences` in the same order, whatever the order in which
\* the sets of common columns and of common keys are iterated.
C23_Determinism == pc = "again" => again = report

\* two records are of one aligned unit: of the same key, or both of the
\* tables aligned by position
SameUnit(r, q) ==
    IF "by_values" \in DOMAIN r
    THEN "by_values" \in DOMAIN q /\ r.by_values = q.by_values
    ELSE "by_values" \notin DOMAIN q

\* the records of a list that name a row ascend by row within each unit
RowsAscend(diffs) ==
    \A i, j \in 1..Len(diffs) :
        (/\ i < j
         /\ "row" \in DOMAIN diffs[i]
         /\ "row" \in DOMAIN diffs[j]
         /\ SameUnit(diffs[i], diffs[j])) => diffs[i].row <= diffs[j].row

\* C25: the records of one aligned unit are in the order of the row
\* index, then of the columns: no record of a smaller row index comes after
\* a record of a larger row index of the same unit.
C25_RowMajorOrder ==
    pc = "compared" => RowsAscend(report.differences) /\ RowsAscend(differences)

\* C26 by key: no record of the keyed branch names a column of `by`
C26_KeyedSkipsKeyColumns ==
    (pc = "compared" /\ ran = {"keyed"}) =>
        \A r \in AllRecords :
            "variable" \in DOMAIN r => r.variable \notin ByColumns(by)

\* C26 by position: every column of both tables is compared, the columns
\* of `by` too
C26_PositionalComparesAll ==
    (pc = "compared" /\ ran = {"positional"}) =>
        \A p \in PositionalPairs :
            RecordsAt(report.differences, p[1], p[2] - 1)
                = CellRecords([variable |-> p[1], row |-> p[2] - 1],
                              base.rows[p[2]][p[1]], comp.rows[p[2]][p[1]],
                              BothFloat(base, comp, p[1]), atol, rtol)

\* C26: by key the key columns are not compared; by position, the
\* fallback included, every shared column is compared, the columns listed
\* in `by` too.
C26_KeyColumns == C26_KeyedSkipsKeyColumns /\ C26_PositionalComparesAll

C26_Witness ==
    /\ pc = "compared"
    /\ ran = {"positional"}
    /\ by # <<>>
    /\ \E r \in Range(report.differences) :
          /\ "variable" \in DOMAIN r
          /\ r.variable \in ByColumns(by)

\* the key tuples of a table, two missing cells being equal
KeyTuples(t) == { KeyTuple(t.rows[i], by) : i \in 1..len(t) }

\* C27: by key, a key tuple that holds a missing cell and is in both
\* tables is one common key: it counts in common_groups and in neither
\* base_only_groups nor comp_only_groups.
C27_MissingKeysCommon ==
    (pc = "compared" /\ ran = {"keyed"}) =>
        /\ report.common_groups = Cardinality(KeyTuples(base) \cap KeyTuples(comp))
        /\ report.base_only_groups = Cardinality(KeyTuples(base) \ KeyTuples(comp))
        /\ report.comp_only_groups = Cardinality(KeyTuples(comp) \ KeyTuples(base))

\* C30: by key, by_group_count_match tells that base_only_groups and
\* comp_only_groups are equal, whether they are zero or not.
C30_GroupCountFlag ==
    (pc = "compared" /\ ran = {"keyed"}) =>
        report.by_group_count_match
            = (report.base_only_groups = report.comp_only_groups)

C30_Witness ==
    /\ pc = "compared"
    /\ ran = {"keyed"}
    /\ report.by_group_count_match
    /\ report.base_only_groups = 1
    /\ report.comp_only_groups = 1
    /\ report.common_groups = 1

\* a path names a file that read_sas reads
Readable(path) == path.exists /\ lower(path.ext) \in {".sas7bdat", ".xpt"}

\* the reads and the core call of the subcommand return
CoreReturns ==
    IF args.command = "complibs"
    THEN args.base.isdir /\ args.comp.isdir
    ELSE Readable(args.base) /\ Readable(args.comp)

\* the script with no subcommand prints the help and ends with status 1
HelpExit ==
    args.command = "" => (exit_code = 1 /\ emitted = "help" /\ logged = <<>>)

\* a subcommand ends with status 0 and no error logged, or with status 1
\* and one error logged
ExitZeroIff(success) ==
    args.command # "" =>
        IF success
        THEN exit_code = 0 /\ logged = <<>> /\ emitted \in {"stdout", "file"}
        ELSE exit_code = 1 /\ Len(logged) = 1 /\ emitted = ""

\* C24 as first stated: a subcommand ends with status 0 when the reads and
\* the core call return, whether the datasets differ or not, and with
\* status 1 after it logs a message when one of them raises; no subcommand
\* gives the help and status 1.
C24_ExitZeroWhenCoreReturns ==
    pc = "exit" => HelpExit /\ ExitZeroIff(CoreReturns)

\* C24: a subcommand ends with status 0 when the reads, the core call and
\* the writing of the result all return, whether the datasets differ or
\* not, and with status 1 after it logs a message when one of them raises;
\* no subcommand gives the help and status 1.
C24_ExitStatus ==
    pc = "exit" =>
        HelpExit /\ ExitZeroIff(CoreReturns /\ args.output # "unwritable")

C24_Witness ==
    /\ pc = "exit"
    /\ args.command = "compare"
    /\ exit_code = 0
    /\ report.match = FALSE
    /\ emitted = "stdout"

\* the comparison of an entry was made by key
ByKey(entry) == "common_groups" \in DOMAIN entry.comparison

\* C28: complibs compares the two tables of a dataset by key on the
\* requested sort columns that both tables have, the columns it sorted by:
\* a requested column that one table lacks does not make the comparison
\* positional.
C28_KeyedOnSharedSortColumns ==
    (pc = "complibs" /\ error = "") =>
        \A dataset \in DOMAIN results :
            ByKey(results[dataset]) <=> SharedSortColumns(dataset) # <<>>

\* C29: in every entry of the report of complibs the row counts agree:
\* row_count_match tells that ds1_rows and ds2_rows are equal, and the
\* nested comparison has the same counts and the same flag, also when the
\* two tables share no column.
C29_RowCountsAgree ==
    (pc = "complibs" /\ error = "") =>
        \A dataset \in DOMAIN results :
            LET entry == results[dataset]
            IN  /\ entry.row_count_match = (entry.ds1_rows = entry.ds2_rows)
                /\ entry.comparison.base_rows = entry.ds1_rows
                /\ entry.comparison.comp_rows = entry.ds2_rows
                /\ entry.comparison.row_count_match = entry.row_count_match

====
